---- MODULE Spec2Model ----
(***************************************************************************)
(* Telemetry and correlation engine of the WebRTC object-detection server. *)
(*                                                                         *)
(* The collector (src/src/server/metrics.py, class MetricsCollector) is    *)
(* one record, `metrics'; every method is an operator from collector state *)
(* to collector state.  The producers are the ObjectDetectionTrack.recv    *)
(* coroutines of src/src/server/inference.py: they run on one asyncio      *)
(* event loop, so a step of a stream is the code between two await points. *)
(*                                                                         *)
(* Numbers: time.time() is the integer clock `now' (wall-clock seconds,    *)
(* taken as non-decreasing); a float quotient a / b is the pair <<a, b>>.  *)
(* Host readings (psutil cpu/memory) are not part of the model.            *)
(***************************************************************************)
EXTENDS Integers, Sequences, FiniteSets, TLC

\* ------------------------------------------------------------------ bounds
\* window_size of the collector (constructor parameter)
WindowSize == 2
\* frames the streams process in all
MaxFrames == 2
\* last value of the clock
MaxTime == 1
\* direct calls of the collector's methods in SpecCollector
MaxCalls == 4
\* direct frame calls made on the collector in the frame-rate specification
MaxFpsCalls == 5

\* ------------------------------------------------------- program constants
\* list(self.latency_history)[-10:]
RecentCount == 10
\* PrivacyMetrics.data_local_processing default
InitialLocalProcessing == 100

Streams == {"s1", "s2"}
Sockets == {"w1", "w2"}

\* detection batches the model's predict step can return (confidence in tenths,
\* already filtered at > 0.5)
Person == [class |-> "person", confidence |-> 9]
Car == [class |-> "car", confidence |-> 6]
Batches == {<< >>, <<Person>>, <<Person, Car, Car>>}

\* identifiers used by direct calls of the collector API
ApiIds == {<<0, 0>>, <<1, 0>>}

\* peer connections: one RTCPeerConnection per POST /offer
Peers == {"p1", "p2", "p3"}

\* time.time() at the start of the session; scaled down so that line 141's
\* product stays within 32-bit integers (any value far above the number of
\* attempts behaves alike)
Epoch == 1700000

\* connection_id arguments of direct calls of record_connection_success:
\* None, the keys of the first attempts, and an identifier no attempt has
ApiConnectionIds == {0, 1, 2, 7}

\* identifiers used by the calls that feed the reporting endpoints
ReportIds == {<<0, 0>>}

VARIABLES
    metrics,      \* the MetricsCollector singleton
    websockets,   \* inference.py: set of registered WebSocket connections
    ws_state,     \* per connection: "new", "open" (handler running), "closed",
                  \* "stalled" (open, but the viewer no longer reads)
    now,          \* time.time()
    pc,           \* per stream: position of its recv coroutine
    frame_count,  \* per stream: ObjectDetectionTrack.frame_count
    frame_id,     \* per stream: local frame_id of the running recv
    detections,   \* per stream: local detections of the running recv
    data_size,    \* per stream: local detection_data_size of the running recv
    pending,      \* per stream: sockets of websockets.copy() not yet visited
    sending,      \* per stream: the socket whose send_str is awaited, and its outcome
    result,       \* per stream: how the last finished recv ended
    response,     \* the HTTP response the current step produced, if it is a request
    observed,     \* history: every snapshot appended, calls made, last direct call
    pcs,          \* inference.py: set of live peer connections
    conn,         \* per peer connection: its state and the closure's connection_id
    connected_clients, \* signaling.py: set of registered signaling clients
    client        \* signaling.py, per client: its connection and its handler

vars == <<metrics, websockets, ws_state, now, pc, frame_count, frame_id,
          detections, data_size, pending, sending, result, response, observed,
          pcs, conn, connected_clients, client>>

stream_vars == <<pc, frame_count, frame_id, detections, data_size, pending,
                 sending, result>>

conn_vars == <<pcs, conn>>

relay_vars == <<connected_clients, client>>

\* everything inference.py and metrics.py own
server_vars == <<metrics, websockets, ws_state, now, pc, frame_count, frame_id,
                 detections, data_size, pending, sending, result, response,
                 observed, pcs, conn>>

\* ------------------------------------------------------------ dictionaries
EmptyDict == [k \in {} |-> 0]

DictPut(d, k, v) == [x \in (DOMAIN d) \cup {k} |-> IF x = k THEN v ELSE d[x]]

DictDel(d, k) == [x \in (DOMAIN d) \ {k} |-> d[x]]

\* --------------------------------------------------------------- sequences
RECURSIVE SumSeq(_)
SumSeq(s) == IF s = << >> THEN 0 ELSE Head(s) + SumSeq(Tail(s))

\* list(h)[-n:]
LastN(h, n) == IF Len(h) <= n THEN h ELSE SubSeq(h, Len(h) - n + 1, Len(h))

Max(a, b) == IF a >= b THEN a ELSE b

\* deque(maxlen=n).append(x): a full deque drops its oldest entry
deque_append_keeps_oldest(h, x, n) == IF Len(h) >= n THEN h ELSE Append(h, x)

deque_append(h, x, n) == IF Len(h) >= n THEN Append(Tail(h), x) ELSE Append(h, x)

\* ---------------------------------------------------------- MetricsCollector
MetricsInit ==
    [ window_size |-> WindowSize,
      start_time |-> 0,
      latency_history |-> << >>,
      computational_history |-> << >>,
      network_history |-> << >>,
      detection_history |-> << >>,
      current_latency |-> [inference_time |-> 0,
                           frame_processing_time |-> 0,
                           webrtc_connection_time |-> 0],
      current_computational |-> [inference_fps |-> <<0, 1>>],
      current_network |-> [video_bandwidth |-> <<0, 1>>,
                           connection_success_rate |-> <<100, 1>>,
                           total_bytes_sent |-> 0,
                           total_bytes_received |-> 0],
      current_detection |-> [total_detections |-> 0,
                             avg_confidence |-> <<0, 1>>,
                             detection_categories |-> EmptyDict,
                             frames_with_detections |-> 0,
                             total_frames_processed |-> 0],
      current_scalability |-> [concurrent_users |-> 0],
      current_privacy |-> [data_local_processing |-> InitialLocalProcessing,
                           privacy_events |-> << >>],
      frame_start_times |-> EmptyDict,
      inference_start_times |-> EmptyDict,
      connection_start_times |-> EmptyDict,
      total_frames |-> 0,
      total_detections |-> 0,
      connection_attempts |-> 0,
      successful_connections |-> 0 ]

\* time.time() - start
elapsed_reversed(t, start) == start - t

elapsed(t, start) == t - start

start_frame_processing_counts_early(m, id, t) ==
    [m EXCEPT !.frame_start_times = DictPut(@, id, t),
              !.total_frames = @ + 1,
              !.current_detection.total_frames_processed = m.total_frames + 1]

start_frame_processing_keep_first(m, id, t) ==
    IF id \in DOMAIN m.frame_start_times THEN m
    ELSE [m EXCEPT !.frame_start_times = DictPut(@, id, t)]

start_frame_processing(m, id, t) ==
    [m EXCEPT !.frame_start_times = DictPut(@, id, t)]

start_inference(m, id, t) ==
    [m EXCEPT !.inference_start_times = DictPut(@, id, t)]

end_inference(m, id, t) ==
    IF id \in DOMAIN m.inference_start_times
    THEN [m EXCEPT !.current_latency.inference_time =
                       elapsed(t, m.inference_start_times[id]),
                   !.inference_start_times = DictDel(@, id)]
    ELSE m

\* end_frame_processing, lines 170-173: close the pairing
close_frame_zero_on_miss(m, id, t) ==
    IF id \in DOMAIN m.frame_start_times
    THEN [m EXCEPT !.current_latency.frame_processing_time =
                       t - m.frame_start_times[id],
                   !.frame_start_times = DictDel(@, id)]
    ELSE [m EXCEPT !.current_latency.frame_processing_time = 0]

close_frame(m, id, t) ==
    IF id \in DOMAIN m.frame_start_times
    THEN [m EXCEPT !.current_latency.frame_processing_time =
                       elapsed(t, m.frame_start_times[id]),
                   !.frame_start_times = DictDel(@, id)]
    ELSE m

\* end_frame_processing, lines 190-194: one count per detection's class
count_categories_per_label(cats, dets) ==
    LET labels == {dets[i].class : i \in 1..Len(dets)}
    IN  [c \in (DOMAIN cats) \cup labels |->
            (IF c \in DOMAIN cats THEN cats[c] ELSE 0)
                + (IF c \in labels THEN 1 ELSE 0)]

RECURSIVE count_categories(_, _)
count_categories(cats, dets) ==
    IF dets = << >> THEN cats
    ELSE LET c == Head(dets).class
             old == IF c \in DOMAIN cats THEN cats[c] ELSE 0
         IN  count_categories(DictPut(cats, c, old + 1), Tail(dets))

\* end_frame_processing, lines 176-177
count_frame_only_with_detections(m, dets) ==
    IF dets = << >> THEN m
    ELSE [m EXCEPT !.total_frames = @ + 1,
                   !.current_detection.total_frames_processed = m.total_frames + 1]

count_frame_lags(m, dets) ==
    [m EXCEPT !.total_frames = @ + 1,
              !.current_detection.total_frames_processed = m.total_frames]

count_frame(m, dets) ==
    [m EXCEPT !.total_frames = @ + 1,
              !.current_detection.total_frames_processed = m.total_frames + 1]

\* end_frame_processing, lines 179-194
record_detections_per_object(m, dets) ==
    IF dets = << >> THEN m
    ELSE [m EXCEPT
            !.current_detection.frames_with_detections = @ + Len(dets),
            !.total_detections = @ + Len(dets),
            !.current_detection.total_detections = m.total_detections + Len(dets),
            !.current_detection.avg_confidence =
                <<SumSeq([i \in 1..Len(dets) |-> dets[i].confidence]), Len(dets)>>,
            !.current_detection.detection_categories = count_categories(@, dets)]

record_detections_overwrite(m, dets) ==
    IF dets = << >> THEN m
    ELSE [m EXCEPT
            !.current_detection.frames_with_detections = @ + 1,
            !.total_detections = Len(dets),
            !.current_detection.total_detections = Len(dets),
            !.current_detection.avg_confidence =
                <<SumSeq([i \in 1..Len(dets) |-> dets[i].confidence]), Len(dets)>>,
            !.current_detection.detection_categories = count_categories(@, dets)]

record_detections_running_mean(m, dets) ==
    IF dets = << >> THEN m
    ELSE [m EXCEPT
            !.current_detection.frames_with_detections = @ + 1,
            !.total_detections = @ + Len(dets),
            !.current_detection.total_detections = m.total_detections + Len(dets),
            !.current_detection.avg_confidence =
                <<(IF m.total_detections = 0 THEN 0 ELSE @[1])
                      + SumSeq([i \in 1..Len(dets) |-> dets[i].confidence]),
                  m.total_detections + Len(dets)>>,
            !.current_detection.detection_categories = count_categories(@, dets)]

\* the stored detection snapshots sharing detection_categories with the current
\* struct, so that new counts show in them
record_detections_aliased(m, dets) ==
    IF dets = << >> THEN m
    ELSE [m EXCEPT
            !.current_detection.frames_with_detections = @ + 1,
            !.total_detections = @ + Len(dets),
            !.current_detection.total_detections = m.total_detections + Len(dets),
            !.current_detection.avg_confidence =
                <<SumSeq([i \in 1..Len(dets) |-> dets[i].confidence]), Len(dets)>>,
            !.current_detection.detection_categories = count_categories(@, dets),
            !.detection_history =
                [i \in 1..Len(@) |->
                    [@[i] EXCEPT !.detection_categories =
                        count_categories(
                            m.current_detection.detection_categories, dets)]]]

record_detections(m, dets) ==
    IF dets = << >> THEN m
    ELSE [m EXCEPT
            !.current_detection.frames_with_detections = @ + 1,
            !.total_detections = @ + Len(dets),
            !.current_detection.total_detections = m.total_detections + Len(dets),
            !.current_detection.avg_confidence =
                <<SumSeq([i \in 1..Len(dets) |-> dets[i].confidence]), Len(dets)>>,
            !.current_detection.detection_categories = count_categories(@, dets)]

\* end_frame_processing, lines 201-205: fps = 1 / mean(recent) = len / sum
update_fps(m) ==
    IF Len(m.latency_history) > 0
    THEN LET recent == LastN(m.latency_history, RecentCount)
             times == [i \in 1..Len(recent) |-> recent[i].frame_processing_time]
         IN  IF \A i \in 1..Len(times) : times[i] > 0
             THEN [m EXCEPT !.current_computational.inference_fps =
                                IF SumSeq(times) > 0
                                THEN <<Len(times), SumSeq(times)>>
                                ELSE <<0, 1>>]
             ELSE m
    ELSE m

\* end_frame_processing, lines 208-210
store_history_without_detection(m) ==
    [m EXCEPT
        !.latency_history = deque_append(@, m.current_latency, m.window_size),
        !.computational_history =
            deque_append(@, m.current_computational, m.window_size)]

store_history(m) ==
    [m EXCEPT
        !.latency_history = deque_append(@, m.current_latency, m.window_size),
        !.computational_history =
            deque_append(@, m.current_computational, m.window_size),
        !.detection_history = deque_append(@, m.current_detection, m.window_size)]

end_frame_processing(m, id, dets, t) ==
    store_history(update_fps(record_detections(count_frame(close_frame(m, id, t), dets), dets)))

record_network_metrics_counts_twice(m, bytes_sent, t) ==
    LET m1 == [m EXCEPT !.current_network.total_bytes_sent = @ + 2 * bytes_sent]
    IN  [m1 EXCEPT !.network_history =
                       deque_append(@, m1.current_network, m.window_size)]

record_network_metrics(m, bytes_sent, t) ==
    LET m1 == [m EXCEPT !.current_network.total_bytes_sent = @ + bytes_sent]
        time_diff == t - (m.start_time + Len(m.network_history))
        m2 == IF Len(m.network_history) > 0 /\ time_diff > 0
              THEN [m1 EXCEPT !.current_network.video_bandwidth =
                                  <<bytes_sent, time_diff>>]
              ELSE m1
    IN  [m2 EXCEPT !.network_history =
                       deque_append(@, m2.current_network, m.window_size)]

record_privacy_event(m, event_type, details, t) ==
    LET m1 == [m EXCEPT !.current_privacy.privacy_events =
                            Append(@, <<t, event_type, details>>)]
    IN  IF event_type = "data_transmitted"
        THEN [m1 EXCEPT !.current_privacy.data_local_processing = Max(0, @ - 1)]
        ELSE m1

\* lines 226-229: the attempt is stored under the new value of the counter
record_connection_attempt(m, t) ==
    [m EXCEPT !.connection_attempts = @ + 1,
              !.connection_start_times = DictPut(@, m.connection_attempts + 1, t)]

\* lines 231-244; connection_id 0 stands for None (both are false in line 235)
record_connection_success_zero_on_miss(m, connection_id, t) ==
    LET m1 == [m EXCEPT !.successful_connections = @ + 1]
        m2 == IF connection_id # 0 /\ connection_id \in DOMAIN m.connection_start_times
              THEN [m1 EXCEPT
                      !.current_latency.webrtc_connection_time =
                          elapsed(t, m.connection_start_times[connection_id]),
                      !.connection_start_times = DictDel(@, connection_id)]
              ELSE [m1 EXCEPT !.current_latency.webrtc_connection_time = 0]
    IN  IF m2.connection_attempts > 0
        THEN [m2 EXCEPT !.current_network.connection_success_rate =
                            <<m2.successful_connections * 100, m2.connection_attempts>>]
        ELSE m2

record_connection_success(m, connection_id, t) ==
    LET m1 == [m EXCEPT !.successful_connections = @ + 1]
        m2 == IF connection_id # 0 /\ connection_id \in DOMAIN m.connection_start_times
              THEN [m1 EXCEPT
                      !.current_latency.webrtc_connection_time =
                          elapsed(t, m.connection_start_times[connection_id]),
                      !.connection_start_times = DictDel(@, connection_id)]
              ELSE m1
    IN  IF m2.connection_attempts > 0
        THEN [m2 EXCEPT !.current_network.connection_success_rate =
                            <<m2.successful_connections * 100, m2.connection_attempts>>]
        ELSE m2

\* get_statistics, lines 299-300: detection_rate as the pair <<numerator, denominator>>
detection_rate(m) ==
    <<m.current_detection.frames_with_detections * 100,
      Max(1, m.current_detection.total_frames_processed)>>

\* get_current_metrics, lines 257-268 (asdict copies every struct)
get_current_metrics(m, t) ==
    [ uptime_seconds |-> t - m.start_time,
      latency |-> m.current_latency,
      computational |-> m.current_computational,
      network |-> m.current_network,
      detection_quality |-> m.current_detection,
      scalability |-> m.current_scalability,
      privacy |-> m.current_privacy ]

\* a / b <= c / d for quotients with positive divisors
RatLeq(a, b) == a[1] * b[2] <= b[1] * a[2]

\* sum of a sequence of quotients
RECURSIVE RatSum(_)
RatSum(q) ==
    IF q = << >> THEN <<0, 1>>
    ELSE LET r == RatSum(Tail(q))
         IN  <<Head(q)[1] * r[2] + r[1] * Head(q)[2], Head(q)[2] * r[2]>>

\* get_statistics, lines 301-303: the five classes with the highest counts
MostDetectedCount == 5

most_detected_classes(cats) ==
    IF Cardinality(DOMAIN cats) <= MostDetectedCount THEN cats
    ELSE LET top == CHOOSE S \in SUBSET (DOMAIN cats) :
                       /\ Cardinality(S) = MostDetectedCount
                       /\ \A a \in S, b \in (DOMAIN cats) \ S : cats[a] >= cats[b]
         IN  [c \in top |-> cats[c]]

\* get_statistics, lines 275-284: present only if some stored inference_time
\* is positive (median and stdev are not modelled)
latency_statistics(m) ==
    LET all == [i \in 1..Len(m.latency_history) |-> m.latency_history[i].inference_time]
        times == SelectSeq(all, LAMBDA x : x > 0)
        range == {times[i] : i \in 1..Len(times)}
    IN  IF times # << >>
        THEN "latency" :>
               [avg_inference_time |-> <<SumSeq(times), Len(times)>>,
                min_inference_time |-> CHOOSE x \in range : \A y \in range : x <= y,
                max_inference_time |-> CHOOSE x \in range : \A y \in range : x >= y]
        ELSE EmptyDict

\* get_statistics, lines 287-295: present only if some stored inference_fps is
\* positive (the median is not modelled)
performance_statistics(m) ==
    LET all == [i \in 1..Len(m.computational_history) |->
                   m.computational_history[i].inference_fps]
        fps == SelectSeq(all, LAMBDA x : x[1] > 0)
        range == {fps[i] : i \in 1..Len(fps)}
    IN  IF fps # << >>
        THEN "performance" :>
               [avg_fps |-> <<RatSum(fps)[1], RatSum(fps)[2] * Len(fps)>>,
                min_fps |-> CHOOSE x \in range : \A y \in range : RatLeq(x, y),
                max_fps |-> CHOOSE x \in range : \A y \in range : RatLeq(y, x)]
        ELSE EmptyDict

\* get_statistics, lines 298-304
detection_statistics(m) ==
    "detection" :>
        [detection_rate |-> detection_rate(m),
         avg_detections_per_frame |->
             <<m.current_detection.total_detections,
               Max(1, m.current_detection.total_frames_processed)>>,
         most_detected_classes |->
             most_detected_classes(m.current_detection.detection_categories)]

\* the result with "latency" and "performance" filled with zeros when absent
get_statistics_zero_filled(m) ==
    ("latency" :> [avg_inference_time |-> <<0, 1>>, min_inference_time |-> 0,
                   max_inference_time |-> 0])
    @@ ("performance" :> [avg_fps |-> <<0, 1>>, min_fps |-> <<0, 1>>,
                          max_fps |-> <<0, 1>>])
    @@ detection_statistics(m)

\* get_statistics, lines 270-308
get_statistics(m) ==
    latency_statistics(m) @@ performance_statistics(m) @@ detection_statistics(m)

\* the arrays with the newest snapshot first
raw_history_newest_first(m) ==
    LET Rev(h) == [i \in 1..Len(h) |-> h[Len(h) + 1 - i]]
    IN  [latency |-> Rev(m.latency_history),
         computational |-> Rev(m.computational_history),
         network |-> Rev(m.network_history),
         detection |-> Rev(m.detection_history)]

\* export_metrics, lines 324-329: each deque listed from oldest to newest
raw_history(m) ==
    [latency |-> m.latency_history,
     computational |-> m.computational_history,
     network |-> m.network_history,
     detection |-> m.detection_history]

\* export_metrics, lines 315-330
export_data(m, t) ==
    [metadata |-> [total_runtime |-> t - m.start_time,
                   total_frames |-> m.total_frames,
                   total_detections |-> m.total_detections],
     current_metrics |-> get_current_metrics(m, t),
     statistics |-> get_statistics(m),
     raw_history |-> raw_history(m)]

\* an export that empties the histories once they are written
export_metrics_flushes(m, t, io_ok) ==
    [metrics |-> IF io_ok
                 THEN [m EXCEPT !.latency_history = << >>,
                                !.computational_history = << >>,
                                !.network_history = << >>,
                                !.detection_history = << >>]
                 ELSE m,
     written |-> IF io_ok THEN <<export_data(m, t)>> ELSE << >>]

\* export_metrics, lines 310-337: the collector it leaves and the file it wrote;
\* with io_ok false, open or the write raises (line 332) and nothing is returned
export_metrics(m, t, io_ok) ==
    [metrics |-> m,
     written |-> IF io_ok THEN <<export_data(m, t)>> ELSE << >>]

\* ------------------------------------------------------------------- history
NoCall == [op |-> "none", id |-> <<0, 0>>, hit |-> FALSE, start |-> 0, t |-> 0]

NoResponse == [status |-> 0]

\* no fan-out loop has run in the current recv
NoPublish == [copy |-> {}, stayed |-> {}, gone |-> {}, log |-> << >>]

\* no inference of an open frame has been timed
NoMeasure == -1

ObservedInit ==
    [ latency_log |-> << >>,
      computational_log |-> << >>,
      detection_log |-> << >>,
      network_log |-> << >>,
      end_calls |-> 0,
      det_sum |-> 0,
      api_calls |-> 0,
      api_call |-> NoCall,
      api_begun |-> [frame |-> EmptyDict, inference |-> EmptyDict],
      publish |-> [s \in Streams |-> NoPublish],
      removed |-> {},
      registry_log |-> << >>,
      measured |-> [s \in Streams |-> NoMeasure] ]

\* a completed end_frame_processing(id, dets) that left the collector in state m
ObserveEndFrame(o, m, dets) ==
    [o EXCEPT !.latency_log = Append(@, m.current_latency),
              !.computational_log = Append(@, m.current_computational),
              !.detection_log = Append(@, m.current_detection),
              !.end_calls = @ + 1,
              !.det_sum = @ + Len(dets)]

\* a completed record_network_metrics that left the collector in state m
ObserveNetwork(o, m) ==
    [o EXCEPT !.network_log = Append(@, m.current_network)]

\* line 97: the fan-out loop of stream s starts over the copy reg of the registry
ObservePublishBegin(o, s, reg) ==
    [o EXCEPT !.publish[s] =
                  [copy |-> reg, stayed |-> reg, gone |-> o.removed, log |-> << >>]]

\* lines 99-104: one send of stream s to socket w returned (ok) or raised
ObserveSend(o, s, w, ok) ==
    [o EXCEPT !.publish[s].log = Append(@, <<w, IF ok THEN "ok" ELSE "failed">>)]

\* lines 103, 197: socket w was discarded, leaving the registry reg; the sockets
\* registered throughout a running fan-out loop are those still in reg
ObserveRemoval(o, w, reg) ==
    [o EXCEPT !.removed = @ \cup {w},
              !.publish = [s \in Streams |->
                  IF pc[s] = "send" THEN [@[s] EXCEPT !.stayed = @ \cap reg]
                  ELSE @[s]]]

\* lines 61-67: the inference of the open frame of stream s took d (NoMeasure
\* once the frame is closed)
ObserveInference(o, s, d) == [o EXCEPT !.measured[s] = d]

\* a direct call op(id) made at time t, which looks id up in table
ApiCall(op, table, id, t) ==
    [op |-> op, id |-> id, hit |-> id \in DOMAIN table,
     start |-> IF id \in DOMAIN table THEN table[id] ELSE 0, t |-> t]

\* ------------------------------------------------- ObjectDetectionTrack.recv
\* len(detection_data.encode('utf-8')): the size of the JSON text, positive for
\* every batch; here the number of detection records in it
PayloadSize(dets) == Len(dets)

FramesStarted == SumSeq([i \in 1..2 |-> frame_count[IF i = 1 THEN "s1" ELSE "s2"]])

\* no send_str is awaited
NoSend == [ws |-> "none", ok |-> FALSE]

\* line 99: send_str to a socket whose handler is running returns or raises; to
\* a closed socket it raises
SendOutcomes(w) == IF ws_state[w] \in {"open", "stalled"} THEN BOOLEAN ELSE {FALSE}

IdleLocals(s, how) ==
    /\ pc' = [pc EXCEPT ![s] = "idle"]
    /\ frame_id' = [frame_id EXCEPT ![s] = <<0, 0>>]
    /\ detections' = [detections EXCEPT ![s] = << >>]
    /\ data_size' = [data_size EXCEPT ![s] = 0]
    /\ pending' = [pending EXCEPT ![s] = {}]
    /\ sending' = [sending EXCEPT ![s] = NoSend]
    /\ result' = [result EXCEPT ![s] = how]

\* lines 115-117: the except branch
recv_except_drops_frame(m, id, t) == m

recv_except(m, id, t) == end_frame_processing(m, id, << >>, t)

\* lines 106-111: after the fan-out loop
recv_finish(m, id, dets, size, t) ==
    LET m1 == end_frame_processing(m, id, dets, t)
    IN  IF size > 0
        THEN record_privacy_event(m1, "data_transmitted", size, t)
        ELSE m1

\* websockets.add(ws), line 186
register(reg, w) == reg \cup {w}

\* websockets.discard(ws), lines 103 and 197: no error when ws is absent
discard_keeps(reg, w) == reg

discard_absent_clears(reg, w) == IF w \in reg THEN reg \ {w} ELSE {}

discard(reg, w) == reg \ {w}

\* lines 97-104: the sockets of the copy still to visit after a send returned
\* or raised; the except clause is inside the loop
remaining_abort_on_failure(pend, ok) == IF ok THEN pend ELSE {}

remaining_first_only(pend, ok) == {}

remaining(pend, ok) == pend

\* lines 47-51, up to the first await; the clock may move between the two reads
RecvBegin(s) ==
    /\ pc[s] = "idle"
    /\ FramesStarted < MaxFrames
    /\ \E d \in 0..1 :
         /\ now + d <= MaxTime
         /\ frame_id' = [frame_id EXCEPT ![s] = <<frame_count[s], now>>]
         /\ metrics' = start_frame_processing(metrics, <<frame_count[s], now>>, now + d)
         /\ now' = now + d
    /\ frame_count' = [frame_count EXCEPT ![s] = @ + 1]
    /\ pc' = [pc EXCEPT ![s] = "track_recv"]
    /\ response' = NoResponse
    /\ UNCHANGED <<conn_vars, relay_vars>>
    /\ observed' = [observed EXCEPT !.publish[s] = NoPublish]
    /\ UNCHANGED <<websockets, ws_state, detections, data_size, pending, sending,
                   result>>

\* line 54 raises: no frame was obtained, so the handler's `return frame' raises
RecvTrackError(s) ==
    /\ pc[s] = "track_recv"
    /\ metrics' = recv_except(metrics, frame_id[s], now)
    /\ observed' = ObserveEndFrame(observed, metrics', << >>)
    /\ IdleLocals(s, "raised")
    /\ response' = NoResponse
    /\ UNCHANGED <<conn_vars, relay_vars>>
    /\ UNCHANGED <<websockets, ws_state, now, frame_count>>

\* line 55 raises: a frame was obtained, inference has not started
RecvConvertError(s) ==
    /\ pc[s] = "track_recv"
    /\ metrics' = recv_except(metrics, frame_id[s], now)
    /\ observed' = ObserveEndFrame(observed, metrics', << >>)
    /\ IdleLocals(s, "frame_after_error")
    /\ response' = NoResponse
    /\ UNCHANGED <<conn_vars, relay_vars>>
    /\ UNCHANGED <<websockets, ws_state, now, frame_count>>

\* line 64 raises after start_inference (line 61); predict took d
RecvPredictError(s) ==
    /\ pc[s] = "track_recv"
    /\ \E d \in 0..1 :
         /\ now + d <= MaxTime
         /\ metrics' = recv_except(start_inference(metrics, frame_id[s], now),
                                   frame_id[s], now + d)
         /\ now' = now + d
    /\ observed' = ObserveEndFrame(observed, metrics', << >>)
    /\ IdleLocals(s, "frame_after_error")
    /\ response' = NoResponse
    /\ UNCHANGED <<conn_vars, relay_vars>>
    /\ UNCHANGED <<websockets, ws_state, frame_count>>

\* a line of 69-94 raises (reading the boxes, json.dumps): inference is closed
RecvPostError(s) ==
    /\ pc[s] = "track_recv"
    /\ \E d \in 0..1 :
         /\ now + d <= MaxTime
         /\ metrics' = recv_except(
                end_inference(start_inference(metrics, frame_id[s], now),
                              frame_id[s], now + d),
                frame_id[s], now + d)
         /\ now' = now + d
    /\ observed' = ObserveEndFrame(observed, metrics', << >>)
    /\ IdleLocals(s, "frame_after_error")
    /\ response' = NoResponse
    /\ UNCHANGED <<conn_vars, relay_vars>>
    /\ UNCHANGED <<websockets, ws_state, frame_count>>

\* lines 55-99 without error: inference took d and found dets; with a non-empty
\* batch and a non-empty registry the loop starts and awaits its first send_str
RecvInfer(s) ==
    /\ pc[s] = "track_recv"
    /\ \E d \in 0..1, dets \in Batches :
         /\ now + d <= MaxTime
         /\ now' = now + d
         /\ LET m == end_inference(start_inference(metrics, frame_id[s], now),
                                   frame_id[s], now + d)
            IN  IF dets # << >> /\ websockets # {}
                THEN /\ metrics' = m
                     /\ pc' = [pc EXCEPT ![s] = "send"]
                     /\ detections' = [detections EXCEPT ![s] = dets]
                     /\ data_size' = [data_size EXCEPT ![s] = PayloadSize(dets)]
                     /\ \E w \in websockets : \E ok \in SendOutcomes(w) :
                          /\ sending' = [sending EXCEPT ![s] = [ws |-> w, ok |-> ok]]
                          /\ pending' = [pending EXCEPT ![s] = websockets \ {w}]
                     /\ observed' = ObserveInference(
                            ObservePublishBegin(observed, s, websockets), s, d)
                     /\ UNCHANGED <<frame_id, result>>
                ELSE /\ metrics' = recv_finish(m, frame_id[s], dets, 0, now + d)
                     /\ observed' = ObserveEndFrame(observed, metrics', dets)
                     /\ IdleLocals(s, "frame")
    /\ response' = NoResponse
    /\ UNCHANGED <<conn_vars, relay_vars>>
    /\ UNCHANGED <<websockets, ws_state, frame_count>>

\* lines 99-104: the awaited send_str returns or raises, and the loop goes on
\* to await the next socket's send_str or, after the last, to lines 106-113;
\* a send to a viewer that no longer reads does not return
RecvSend(s) ==
    /\ pc[s] = "send"
    /\ ws_state[sending[s].ws] # "stalled"
    /\ LET w == sending[s].ws
           ok == sending[s].ok
           m == IF ok THEN record_network_metrics(metrics, data_size[s], now)
                      ELSE metrics
           reg == IF ok THEN websockets ELSE discard(websockets, w)
           sent == ObserveSend(observed, s, w, ok)
           o == IF ok THEN ObserveNetwork(sent, m) ELSE ObserveRemoval(sent, w, reg)
           rest == remaining(pending[s], ok)
       IN  /\ websockets' = reg
           /\ IF rest = {}
              THEN /\ metrics' = recv_finish(m, frame_id[s], detections[s],
                                             data_size[s], now)
                   /\ observed' = ObserveInference(
                          ObserveEndFrame(o, metrics', detections[s]), s, NoMeasure)
                   /\ IdleLocals(s, "frame")
              ELSE /\ metrics' = m
                   /\ observed' = o
                   /\ \E u \in rest : \E ok_u \in SendOutcomes(u) :
                        /\ sending' = [sending EXCEPT ![s] = [ws |-> u, ok |-> ok_u]]
                        /\ pending' = [pending EXCEPT ![s] = rest \ {u}]
                   /\ UNCHANGED <<pc, frame_id, detections, data_size, result>>
    /\ response' = NoResponse
    /\ UNCHANGED <<conn_vars, relay_vars>>
    /\ UNCHANGED <<ws_state, now, frame_count>>

\* ----------------------------------------------------------- websocket_handler
\* lines 183-186
WsConnect(w) ==
    /\ ws_state[w] = "new"
    /\ ws_state' = [ws_state EXCEPT ![w] = "open"]
    /\ websockets' = register(websockets, w)
    /\ response' = NoResponse
    /\ UNCHANGED <<conn_vars, relay_vars>>
    /\ UNCHANGED <<metrics, now, stream_vars, observed>>

\* lines 196-198
WsDisconnect(w) ==
    /\ ws_state[w] = "open"
    /\ ws_state' = [ws_state EXCEPT ![w] = "closed"]
    /\ websockets' = discard(websockets, w)
    /\ observed' = ObserveRemoval(observed, w, websockets')
    /\ response' = NoResponse
    /\ UNCHANGED <<conn_vars, relay_vars>>
    /\ UNCHANGED <<metrics, now, stream_vars>>

\* ------------------------------------------------------------------ metrics_api
\* GET /metrics: one synchronous call of get_current_metrics
MetricsApi ==
    /\ response' = [status |-> 200, body |-> get_current_metrics(metrics, now)]
    /\ UNCHANGED <<conn_vars, relay_vars>>
    /\ UNCHANGED <<metrics, websockets, ws_state, now, stream_vars, observed>>

\* ------------------------------------------------------------ metrics_statistics
\* GET /metrics/statistics: one synchronous call of get_statistics
MetricsStatistics ==
    /\ response' = [status |-> 200, body |-> get_statistics(metrics)]
    /\ UNCHANGED <<conn_vars, relay_vars>>
    /\ UNCHANGED <<metrics, websockets, ws_state, now, stream_vars, observed>>

\* ---------------------------------------------------------------- metrics_export
\* a handler that answers 200 with an empty document when the export raises
metrics_export_swallows(m, t, io_ok) ==
    LET e == export_metrics(m, t, io_ok)
    IN  [metrics |-> e.metrics,
         response |-> IF e.written # << >>
                      THEN [status |-> 200, body |-> e.written[1]]
                      ELSE [status |-> 200, body |-> EmptyDict]]

\* lines 233-251: the file's content, or the error document with status 500
metrics_export(m, t, io_ok) ==
    LET e == export_metrics(m, t, io_ok)
    IN  [metrics |-> e.metrics,
         response |-> IF e.written # << >>
                      THEN [status |-> 200, body |-> e.written[1]]
                      ELSE [status |-> 500, body |-> [error |-> "io"]]]

\* GET /metrics/export, with the file system working (io_ok) or failing
MetricsExport(io_ok) ==
    /\ metrics' = metrics_export(metrics, now, io_ok).metrics
    /\ response' = metrics_export(metrics, now, io_ok).response
    /\ UNCHANGED <<conn_vars, relay_vars>>
    /\ UNCHANGED <<websockets, ws_state, now, stream_vars, observed>>

\* ----------------------------------------------------------------------- clock
Tick ==
    /\ now < MaxTime
    /\ now' = now + 1
    /\ response' = NoResponse
    /\ UNCHANGED <<conn_vars, relay_vars>>
    /\ UNCHANGED <<metrics, websockets, ws_state, stream_vars, observed>>

\* ------------------------------------------- direct calls of the collector API
ApiDone(call) ==
    /\ observed.api_calls < MaxCalls
    /\ response' = NoResponse
    /\ UNCHANGED <<conn_vars, relay_vars>>
    /\ UNCHANGED <<websockets, ws_state, now, stream_vars>>

ApiStartFrame(id) ==
    /\ metrics' = start_frame_processing(metrics, id, now)
    /\ observed' = [observed EXCEPT
           !.api_calls = @ + 1,
           !.api_begun.frame = DictPut(@, id, now),
           !.api_call =
               ApiCall("start_frame_processing", metrics.frame_start_times, id, now)]
    /\ ApiDone("start_frame_processing")

ApiStartInference(id) ==
    /\ metrics' = start_inference(metrics, id, now)
    /\ observed' = [observed EXCEPT
           !.api_calls = @ + 1,
           !.api_begun.inference = DictPut(@, id, now),
           !.api_call =
               ApiCall("start_inference", metrics.inference_start_times, id, now)]
    /\ ApiDone("start_inference")

ApiEndInference(id) ==
    /\ metrics' = end_inference(metrics, id, now)
    /\ observed' = [observed EXCEPT !.api_calls = @ + 1, !.api_call =
           ApiCall("end_inference", metrics.inference_start_times, id, now)]
    /\ ApiDone("end_inference")

ApiEndFrame(id, dets) ==
    /\ metrics' = end_frame_processing(metrics, id, dets, now)
    /\ observed' = [ObserveEndFrame(observed, metrics', dets) EXCEPT
           !.api_calls = @ + 1,
           !.api_call =
               ApiCall("end_frame_processing", metrics.frame_start_times, id, now)]
    /\ ApiDone("end_frame_processing")

ApiRecordNetwork(bytes_sent) ==
    /\ metrics' = record_network_metrics(metrics, bytes_sent, now)
    /\ observed' = [ObserveNetwork(observed, metrics') EXCEPT
           !.api_calls = @ + 1,
           !.api_call = [NoCall EXCEPT !.op = "record_network_metrics", !.t = now]]
    /\ ApiDone("record_network_metrics")

\* lines 189-195, seen from the server: the viewer stops reading and never
\* closes, so a send_str to it does not return
WsStall(w) ==
    /\ ws_state[w] = "open"
    /\ ws_state' = [ws_state EXCEPT ![w] = "stalled"]
    /\ response' = NoResponse
    /\ UNCHANGED <<metrics, websockets, now, stream_vars, observed, conn_vars,
                   relay_vars>>

\* one step of the recv coroutine of stream s that is under way
RecvStep(s) ==
    \/ RecvTrackError(s)
    \/ RecvConvertError(s)
    \/ RecvPredictError(s)
    \/ RecvPostError(s)
    \/ RecvInfer(s)
    \/ RecvSend(s)

\* ---------------------------------------- direct calls of websockets.add/discard
RegistryCall(op, w) ==
    /\ Len(observed.registry_log) < MaxCalls
    /\ observed' = [observed EXCEPT !.registry_log =
           Append(@, [op |-> op, ws |-> w, present |-> w \in websockets])]
    /\ response' = NoResponse
    /\ UNCHANGED <<metrics, ws_state, now, stream_vars, conn_vars, relay_vars>>

RegistryAdd(w) ==
    /\ websockets' = register(websockets, w)
    /\ RegistryCall("add", w)

RegistryDiscard(w) ==
    /\ websockets' = discard(websockets, w)
    /\ RegistryCall("discard", w)

\* ------------------------------------------------------------------------ offer
\* no offer was received for this peer connection
NoConn == [state |-> "none", connection_id |-> 0, attempt |-> 0, handler |-> "none"]

\* line 141: int(time.time() * 1000)
ConnectionId(t) == (Epoch + t) * 1000

\* lines 139-146, up to the first await of the negotiation
Offer(p) ==
    /\ conn[p].state = "none"
    /\ metrics' = record_connection_attempt(metrics, now)
    /\ pcs' = pcs \cup {p}
    /\ conn' = [conn EXCEPT ![p] = [state |-> "new",
                                    connection_id |-> ConnectionId(now),
                                    attempt |-> metrics'.connection_attempts,
                                    handler |-> "running"]]
    /\ response' = NoResponse
    /\ UNCHANGED <<websockets, ws_state, now, stream_vars, observed, relay_vars>>

\* lines 168-179: the negotiation's awaits are over and offer returns
OfferAnswer(p) ==
    /\ conn[p].handler = "running"
    /\ conn' = [conn EXCEPT ![p].handler = "done"]
    /\ response' = NoResponse
    /\ UNCHANGED <<metrics, websockets, ws_state, now, stream_vars, observed, pcs,
                   relay_vars>>

\* on_connectionstatechange, lines 152-155
PcConnected(p) ==
    /\ conn[p].state = "new"
    /\ conn' = [conn EXCEPT ![p].state = "connected"]
    /\ metrics' = [record_connection_success(metrics, conn[p].connection_id, now)
                      EXCEPT !.current_scalability.concurrent_users = Cardinality(pcs)]
    /\ response' = NoResponse
    /\ UNCHANGED <<websockets, ws_state, now, stream_vars, observed, pcs, relay_vars>>

\* on_connectionstatechange, lines 156-158
PcClosed(p) ==
    /\ conn[p].state \in {"new", "connected", "failed"}
    /\ conn' = [conn EXCEPT ![p].state = "closed"]
    /\ pcs' = pcs \ {p}
    /\ metrics' = [metrics EXCEPT
                      !.current_scalability.concurrent_users = Cardinality(pcs')]
    /\ response' = NoResponse
    /\ UNCHANGED <<websockets, ws_state, now, stream_vars, observed, relay_vars>>

\* on_connectionstatechange, lines 150-158: no branch for "failed"
PcFailed(p) ==
    /\ conn[p].state \in {"new", "connected"}
    /\ conn' = [conn EXCEPT ![p].state = "failed"]
    /\ response' = NoResponse
    /\ UNCHANGED <<metrics, websockets, ws_state, now, stream_vars, observed, pcs,
                   relay_vars>>

\* ------------------------------- direct calls of the connection-tracking methods
ApiConnectionAttempt ==
    /\ metrics' = record_connection_attempt(metrics, now)
    /\ observed' = [observed EXCEPT
           !.api_calls = @ + 1,
           !.api_call = [NoCall EXCEPT !.op = "record_connection_attempt", !.t = now]]
    /\ ApiDone("record_connection_attempt")

ApiConnectionSuccess(id) ==
    /\ metrics' = record_connection_success(metrics, id, now)
    /\ observed' = [observed EXCEPT !.api_calls = @ + 1, !.api_call =
           ApiCall("record_connection_success", metrics.connection_start_times,
                   id, now)]
    /\ ApiDone("record_connection_success")

\* -------------------------------------------------------- signaling.py handler
\* the clients of the signaling relay; each connects once
Clients == {"c1", "c2", "c3"}

\* link: the client's connection, "none" before it connects, then "open", then
\*   "closed"; handler: where its handler coroutine is, "none", "listening" (at
\*   the async for, line 21), "forwarding" (at the await of line 26), "returned"
\*   or "raised"; to: the recipient whose send is awaited; visited: the clients
\*   the for loop of line 24 has yielded; iter: connected_clients when that loop
\*   started; got: the recipients the message being forwarded reached; sent: the
\*   messages this client has sent
NoClient == [link |-> "none", handler |-> "none", to |-> "none", visited |-> {},
             iter |-> {}, got |-> {}, sent |-> 0]

\* messages each client sends
MaxMessages == 1

\* line 24, `for client in connected_clients', advanced once: the set iterator
\* raises RuntimeError when the set's size is not the size it had when the loop
\* started; over an unchanged set it yields an element not yet yielded, or ends
\* after the last; over a set of the same size and other members the elements
\* it still yields are not determined. The sender itself is yielded and skipped
\* at line 25, so the outcomes are the next recipient, "end" or "RuntimeError".
next_client(reg, me, h) ==
    LET left == (reg \ h.visited) \ {me}
    IN  IF Cardinality(reg) # Cardinality(h.iter) THEN {"RuntimeError"}
        ELSE IF reg = h.iter THEN (IF left = {} THEN {"end"} ELSE left)
        ELSE left \cup {"end"}

\* lines 24-26 from the for statement to the next await, or lines 29-32 when the
\* iterator raises: the handler's new state and the registry
forward_next(reg, cl, me, nxt) ==
    IF nxt = "RuntimeError"
    THEN [reg |-> reg \ {me},
          cl |-> [cl EXCEPT ![me].handler = "raised", ![me].link = "closed",
                            ![me].to = "none"]]
    ELSE IF nxt = "end"
    THEN [reg |-> reg,
          cl |-> [cl EXCEPT ![me].handler = "listening", ![me].to = "none"]]
    ELSE [reg |-> reg,
          cl |-> [cl EXCEPT ![me].handler = "forwarding", ![me].to = nxt,
                            ![me].visited = @ \cup {nxt}]]

\* lines 17-21: a client connects, its handler registers it and waits for its
\* first message
SigConnect(c) ==
    /\ client[c].link = "none"
    /\ connected_clients' = connected_clients \cup {c}
    /\ client' = [client EXCEPT ![c].link = "open", ![c].handler = "listening"]
    /\ UNCHANGED server_vars

\* a client's connection closes, by the client or by the network
SigClose(c) ==
    /\ client[c].link = "open"
    /\ client' = [client EXCEPT ![c].link = "closed"]
    /\ UNCHANGED <<connected_clients, server_vars>>

\* lines 21-26: a message of c arrives and the loop over connected_clients
\* starts, up to the first await of a send
SigMessage(c) ==
    /\ client[c].handler = "listening"
    /\ client[c].link = "open"
    /\ client[c].sent < MaxMessages
    /\ LET cl == [client EXCEPT ![c].sent = @ + 1, ![c].visited = {},
                                ![c].got = {}, ![c].iter = connected_clients]
       IN  \E nxt \in next_client(connected_clients, c, cl[c]) :
              /\ client' = forward_next(connected_clients, cl, c, nxt).cl
              /\ connected_clients' = forward_next(connected_clients, cl, c, nxt).reg
    /\ UNCHANGED server_vars

\* line 26 returns: the recipient's connection is open, the message is handed
\* over and the loop goes on
SigSent(c) ==
    /\ client[c].handler = "forwarding"
    /\ client[client[c].to].link = "open"
    /\ LET cl == [client EXCEPT ![c].got = @ \cup {client[c].to}]
       IN  \E nxt \in next_client(connected_clients, c, cl[c]) :
              /\ client' = forward_next(connected_clients, cl, c, nxt).cl
              /\ connected_clients' = forward_next(connected_clients, cl, c, nxt).reg
    /\ UNCHANGED server_vars

\* line 26 raises ConnectionClosed: the recipient's connection is closed. The
\* sender's except clause (line 27) catches it and the sender's finally clause
\* (lines 29-31) unregisters the sender; the library then closes the sender's
\* connection
SigSendFailed(c) ==
    /\ client[c].handler = "forwarding"
    /\ client[client[c].to].link = "closed"
    /\ connected_clients' = connected_clients \ {c}
    /\ client' = [client EXCEPT ![c].handler = "returned", ![c].link = "closed",
                                ![c].to = "none"]
    /\ UNCHANGED server_vars

\* lines 21, 27-32: the async for of a client whose connection is closed ends
\* or raises ConnectionClosed, and the handler unregisters its client
SigGone(c) ==
    /\ client[c].handler = "listening"
    /\ client[c].link = "closed"
    /\ connected_clients' = connected_clients \ {c}
    /\ client' = [client EXCEPT ![c].handler = "returned"]
    /\ UNCHANGED server_vars

\* --------------------------------------------------------------- specification
Init ==
    /\ metrics = MetricsInit
    /\ websockets = {}
    /\ ws_state = [w \in Sockets |-> "new"]
    /\ now = 0
    /\ pc = [s \in Streams |-> "idle"]
    /\ frame_count = [s \in Streams |-> 0]
    /\ frame_id = [s \in Streams |-> <<0, 0>>]
    /\ detections = [s \in Streams |-> << >>]
    /\ data_size = [s \in Streams |-> 0]
    /\ pending = [s \in Streams |-> {}]
    /\ sending = [s \in Streams |-> NoSend]
    /\ result = [s \in Streams |-> "none"]
    /\ response = NoResponse
    /\ observed = ObservedInit
    /\ pcs = {}
    /\ conn = [p \in Peers |-> NoConn]
    /\ connected_clients = {}
    /\ client = [c \in Clients |-> NoClient]

\* the server: streams, viewers and the polling dashboard on one event loop
Next ==
    \/ \E s \in Streams : RecvBegin(s)
    \/ \E s \in Streams : RecvTrackError(s)
    \/ \E s \in Streams : RecvConvertError(s)
    \/ \E s \in Streams : RecvPredictError(s)
    \/ \E s \in Streams : RecvPostError(s)
    \/ \E s \in Streams : RecvInfer(s)
    \/ \E s \in Streams : RecvSend(s)
    \/ \E w \in Sockets : WsConnect(w)
    \/ \E w \in Sockets : WsDisconnect(w)
    \/ MetricsApi
    \/ Tick

Spec == Init /\ [][Next]_vars

\* the collector alone, driven by any sequence of calls of its methods
NextCollector ==
    \/ \E id \in ApiIds : ApiStartFrame(id)
    \/ \E id \in ApiIds : ApiStartInference(id)
    \/ \E id \in ApiIds : ApiEndInference(id)
    \/ \E id \in ApiIds, dets \in Batches : ApiEndFrame(id, dets)
    \/ \E b \in 1..2 : ApiRecordNetwork(b)
    \/ Tick

SpecCollector == Init /\ [][NextCollector]_vars

\* the server with a viewer that may stop reading
NextStall ==
    \/ \E s \in Streams : RecvBegin(s)
    \/ \E s \in Streams : RecvStep(s)
    \/ \E w \in Sockets : WsConnect(w)
    \/ \E w \in Sockets : WsDisconnect(w)
    \/ \E w \in Sockets : WsStall(w)
    \/ Tick

SpecStall == Init /\ [][NextStall]_vars

\* the registry alone, driven by any sequence of add and discard calls
NextRegistry ==
    \/ \E w \in Sockets : RegistryAdd(w)
    \/ \E w \in Sockets : RegistryDiscard(w)

SpecRegistry == Init /\ [][NextRegistry]_vars

\* the connection tracker alone, driven by any sequence of calls
NextTracker ==
    \/ ApiConnectionAttempt
    \/ \E id \in ApiConnectionIds : ApiConnectionSuccess(id)
    \/ Tick

SpecTracker == Init /\ [][NextTracker]_vars

\* the signaling endpoint: offers and the state changes of their connections
NextOffers ==
    \/ \E p \in Peers : Offer(p)
    \/ \E p \in Peers : OfferAnswer(p)
    \/ \E p \in Peers : PcConnected(p)
    \/ \E p \in Peers : PcClosed(p)
    \/ \E p \in Peers : PcFailed(p)
    \/ Tick

SpecOffers == Init /\ [][NextOffers]_vars

\* the reporting endpoints over a collector fed by direct calls
NextReports ==
    \/ \E id \in ReportIds : ApiStartFrame(id)
    \/ \E id \in ReportIds, dets \in Batches : ApiEndFrame(id, dets)
    \/ ApiRecordNetwork(1)
    \/ ApiConnectionAttempt
    \/ ApiConnectionSuccess(1)
    \/ MetricsApi
    \/ MetricsStatistics
    \/ \E io_ok \in BOOLEAN : MetricsExport(io_ok)
    \/ Tick

SpecReports == Init /\ [][NextReports]_vars

\* frames opened and closed by direct calls, one frame id, up to MaxFpsCalls
\* calls: long enough for a closed frame to follow a frame of duration 0
FpsDone ==
    /\ observed.api_calls < MaxFpsCalls
    /\ response' = NoResponse
    /\ UNCHANGED <<conn_vars, relay_vars>>
    /\ UNCHANGED <<websockets, ws_state, now, stream_vars>>

FpsStartFrame(id) ==
    /\ metrics' = start_frame_processing(metrics, id, now)
    /\ observed' = [observed EXCEPT
           !.api_calls = @ + 1,
           !.api_begun.frame = DictPut(@, id, now),
           !.api_call =
               ApiCall("start_frame_processing", metrics.frame_start_times, id, now)]
    /\ FpsDone

FpsEndFrame(id, dets) ==
    /\ metrics' = end_frame_processing(metrics, id, dets, now)
    /\ observed' = [ObserveEndFrame(observed, metrics', dets) EXCEPT
           !.api_calls = @ + 1,
           !.api_call =
               ApiCall("end_frame_processing", metrics.frame_start_times, id, now)]
    /\ FpsDone

NextFps ==
    \/ \E id \in ReportIds : FpsStartFrame(id)
    \/ \E id \in ReportIds, dets \in Batches : FpsEndFrame(id, dets)
    \/ Tick

SpecFps == Init /\ [][NextFps]_vars

\* the signaling relay with its clients
NextSignaling ==
    \/ \E c \in Clients : SigConnect(c)
    \/ \E c \in Clients : SigClose(c)
    \/ \E c \in Clients : SigMessage(c)
    \/ \E c \in Clients : SigSent(c)
    \/ \E c \in Clients : SigSendFailed(c)
    \/ \E c \in Clients : SigGone(c)

SpecSignaling == Init /\ [][NextSignaling]_vars

\* ================================================================== properties
OpenStreams == {s \in Streams : pc[s] # "idle"}

\* recv invocations that have finished, over all streams
FinishedRecvs == FramesStarted - Cardinality(OpenStreams)

ApiCallIs(op) == observed.api_call.op = op

\* C1: every rolling history holds at most window_size snapshots, and holds
\* exactly the most recent window_size snapshots appended to it, in the order
\* they were appended.
C1_RollingWindow ==
    /\ Len(metrics.latency_history) <= WindowSize
    /\ Len(metrics.computational_history) <= WindowSize
    /\ Len(metrics.detection_history) <= WindowSize
    /\ Len(metrics.network_history) <= WindowSize
    /\ metrics.latency_history = LastN(observed.latency_log, WindowSize)
    /\ metrics.computational_history = LastN(observed.computational_log, WindowSize)
    /\ metrics.detection_history = LastN(observed.detection_log, WindowSize)
    /\ metrics.network_history = LastN(observed.network_log, WindowSize)

\* more snapshots were appended than the window holds, and the evicted one
\* differs from the ones kept
C1_Witness ==
    /\ Len(observed.detection_log) > WindowSize
    /\ observed.detection_log[1] # metrics.detection_history[1]

\* C2: with streams interleaving at their await points and the dashboard
\* polling, total_frames is the number of completed end_frame_processing calls
\* and total_detections the sum of their batch sizes.
C2_NoLostUpdate ==
    /\ metrics.total_frames = observed.end_calls
    /\ metrics.total_detections = observed.det_sum

\* one stream is suspended in its fan-out loop after another frame with
\* detections was closed, and the dashboard has just polled
C2_Witness ==
    /\ \E s \in Streams : pc[s] = "send"
    /\ observed.end_calls >= 1
    /\ observed.det_sum >= 1
    /\ response.status = 200

\* C3 as claimed: an end call that finds no open entry changes nothing in the
\* collector, for the inference kind and for the frame kind.
C3_EndMissIsNoOp ==
    [][ \A id \in ApiIds :
          /\ (ApiEndInference(id) /\ id \notin DOMAIN metrics.inference_start_times)
                => metrics' = metrics
          /\ \A dets \in Batches :
               (ApiEndFrame(id, dets) /\ id \notin DOMAIN metrics.frame_start_times)
                => metrics' = metrics ]_vars

\* C3 amended: an end call that finds no open entry changes no in-flight map
\* and no recorded duration; end_inference changes nothing at all, while
\* end_frame_processing still records the frame: it counts it, aggregates the
\* batch and appends one snapshot to the latency, computational and detection
\* histories.
C3_EndMissAmended ==
    [][ \A id \in ApiIds :
          /\ (ApiEndInference(id) /\ id \notin DOMAIN metrics.inference_start_times)
                => metrics' = metrics
          /\ \A dets \in Batches :
               (ApiEndFrame(id, dets) /\ id \notin DOMAIN metrics.frame_start_times)
                => /\ metrics'.frame_start_times = metrics.frame_start_times
                   /\ metrics'.inference_start_times = metrics.inference_start_times
                   /\ metrics'.current_latency = metrics.current_latency
                   /\ metrics'.total_frames = metrics.total_frames + 1
                   /\ metrics'.total_detections = metrics.total_detections + Len(dets)
                   /\ observed'.latency_log =
                          Append(observed.latency_log, metrics.current_latency)
                   /\ Len(observed'.computational_log) =
                          Len(observed.computational_log) + 1
                   /\ Len(observed'.detection_log) = Len(observed.detection_log) + 1
        ]_vars

\* end_frame_processing was just called for an id with no open entry, after a
\* frame with a positive duration had been recorded
C3_Witness ==
    /\ ApiCallIs("end_frame_processing")
    /\ ~observed.api_call.hit
    /\ metrics.current_latency.frame_processing_time > 0
    /\ metrics.total_frames >= 2

\* C4: an end call that finds the entry its begin opened records the elapsed
\* time since the stored start, which is never negative, and removes the entry.
C4_EndRecordsElapsed ==
    /\ (ApiCallIs("end_frame_processing") /\ observed.api_call.hit) =>
          /\ metrics.current_latency.frame_processing_time =
                 observed.api_call.t - observed.api_call.start
          /\ metrics.current_latency.frame_processing_time >= 0
          /\ observed.api_call.id \notin DOMAIN metrics.frame_start_times
    /\ (ApiCallIs("end_inference") /\ observed.api_call.hit) =>
          /\ metrics.current_latency.inference_time =
                 observed.api_call.t - observed.api_call.start
          /\ metrics.current_latency.inference_time >= 0
          /\ observed.api_call.id \notin DOMAIN metrics.inference_start_times

\* a frame was closed after the clock moved, while another id is still open
C4_Witness ==
    /\ ApiCallIs("end_frame_processing")
    /\ observed.api_call.hit
    /\ observed.api_call.t > observed.api_call.start
    /\ DOMAIN metrics.frame_start_times # {}

\* C5 as claimed: the in-flight maps hold only ids of frames some stream is
\* processing right now.
C5_InFlightOnlyOpen ==
    \A id \in (DOMAIN metrics.frame_start_times)
                 \cup (DOMAIN metrics.inference_start_times) :
        \E s \in OpenStreams : frame_id[s] = id

\* C6 as claimed: a begin call for an id that is already open leaves the start
\* time the first call recorded.
C6_SecondBeginKeepsStart ==
    /\ (ApiCallIs("start_frame_processing") /\ observed.api_call.hit) =>
          metrics.frame_start_times[observed.api_call.id] = observed.api_call.start
    /\ (ApiCallIs("start_inference") /\ observed.api_call.hit) =>
          metrics.inference_start_times[observed.api_call.id] = observed.api_call.start

\* C6 amended: a begin call for an id that is already open overwrites the start
\* time with the time of this call, and the duration end later records is
\* measured from the latest begin of that id.
C6_SecondBeginResets ==
    /\ (ApiCallIs("start_frame_processing") /\ observed.api_call.hit) =>
          metrics.frame_start_times[observed.api_call.id] = observed.api_call.t
    /\ (ApiCallIs("start_inference") /\ observed.api_call.hit) =>
          metrics.inference_start_times[observed.api_call.id] = observed.api_call.t
    /\ (ApiCallIs("end_frame_processing") /\ observed.api_call.hit) =>
          metrics.current_latency.frame_processing_time =
              observed.api_call.t - observed.api_begun.frame[observed.api_call.id]
    /\ (ApiCallIs("end_inference") /\ observed.api_call.hit) =>
          metrics.current_latency.inference_time =
              observed.api_call.t - observed.api_begun.inference[observed.api_call.id]

\* start_frame_processing was just called again for an open id, later than the
\* first call
C6_Witness ==
    /\ ApiCallIs("start_frame_processing")
    /\ observed.api_call.hit
    /\ observed.api_call.t > observed.api_call.start

\* C7 as claimed: two frame units open at the same time never have the same
\* frame_id.
C7_OpenIdsDistinct ==
    \A s, u \in OpenStreams : s # u => frame_id[s] # frame_id[u]

\* C8: every finished recv invocation has added exactly one to
\* total_frames_processed, whatever its batch and wherever it failed.
C8_OneFramePerRecv ==
    /\ metrics.current_detection.total_frames_processed = FinishedRecvs
    /\ metrics.total_frames = FinishedRecvs

\* one recv finished on the error path and another on the normal path with a
\* non-empty batch
C8_Witness ==
    /\ \E s, u \in Streams :
         /\ s # u
         /\ result[s] = "frame_after_error"
         /\ result[u] = "frame"
    /\ metrics.total_detections > 0
    /\ FinishedRecvs = 2

\* C9: frames_with_detections never exceeds total_frames_processed, the
\* detection rate lies in [0, 100], its divisor is never 0, and it is 0 while no
\* frame has been processed.
C9_DetectionRateBounded ==
    /\ metrics.current_detection.frames_with_detections
           <= metrics.current_detection.total_frames_processed
    /\ detection_rate(metrics)[2] >= 1
    /\ detection_rate(metrics)[1] >= 0
    /\ detection_rate(metrics)[1] <= 100 * detection_rate(metrics)[2]
    /\ metrics.current_detection.total_frames_processed = 0 =>
           detection_rate(metrics)[1] = 0

\* some frames had detections and some had none
C9_Witness ==
    /\ metrics.current_detection.frames_with_detections >= 1
    /\ metrics.current_detection.frames_with_detections
           < metrics.current_detection.total_frames_processed

\* C10: no step lowers total_frames, total_detections or their mirrors in
\* current_detection.
C10_TotalsMonotonic ==
    [][ /\ metrics'.total_frames >= metrics.total_frames
        /\ metrics'.total_detections >= metrics.total_detections
        /\ metrics'.current_detection.total_frames_processed
               >= metrics.current_detection.total_frames_processed
        /\ metrics'.current_detection.total_detections
               >= metrics.current_detection.total_detections ]_vars

\* a smaller batch was recorded after a larger one, then an empty one
C10_Witness ==
    /\ Len(observed.detection_log) >= 3
    /\ observed.detection_log[1].total_detections = 3
    /\ observed.detection_log[2].total_detections = 4
    /\ observed.detection_log[3].total_detections = 4

\* detections of a batch that carry the label c
ClassCount(dets, c) == Cardinality({i \in 1..Len(dets) : dets[i].class = c})

\* the per-class counter of label c, 0 while the label was never seen
CategoryCount(m, c) ==
    IF c \in DOMAIN m.current_detection.detection_categories
    THEN m.current_detection.detection_categories[c]
    ELSE 0

Labels == {"person", "car"}

\* C11: recording a non-empty batch adds 1 to frames_with_detections, the size
\* of the batch to total_detections and, for every label, the number of the
\* batch's detections with that label to the label's counter; recording an
\* empty batch leaves frames_with_detections, total_detections, avg_confidence
\* and every per-class counter as they were.
C11_BatchAggregation ==
    [][ \A id \in ApiIds, dets \in Batches :
          ApiEndFrame(id, dets) =>
            IF dets # << >>
            THEN /\ metrics'.current_detection.frames_with_detections =
                        metrics.current_detection.frames_with_detections + 1
                 /\ metrics'.total_detections = metrics.total_detections + Len(dets)
                 /\ metrics'.current_detection.total_detections =
                        metrics.current_detection.total_detections + Len(dets)
                 /\ \A c \in Labels :
                        CategoryCount(metrics', c) =
                            CategoryCount(metrics, c) + ClassCount(dets, c)
                 /\ DOMAIN metrics'.current_detection.detection_categories
                        \subseteq Labels
            ELSE /\ metrics'.current_detection.frames_with_detections =
                        metrics.current_detection.frames_with_detections
                 /\ metrics'.total_detections = metrics.total_detections
                 /\ metrics'.current_detection.total_detections =
                        metrics.current_detection.total_detections
                 /\ metrics'.current_detection.avg_confidence =
                        metrics.current_detection.avg_confidence
                 /\ metrics'.current_detection.detection_categories =
                        metrics.current_detection.detection_categories ]_vars

\* two batches were recorded, one of them with two detections of one label, and
\* then an empty batch
C11_Witness ==
    /\ Len(observed.detection_log) = 3
    /\ observed.detection_log[2].frames_with_detections = 2
    /\ observed.detection_log[3].frames_with_detections = 2
    /\ observed.detection_log[3].total_frames_processed = 3
    /\ CategoryCount(metrics, "car") = 2
    /\ CategoryCount(metrics, "person") = 2
    /\ metrics.total_detections = 4

\* C12: after a non-empty batch is recorded, avg_confidence is the sum of that
\* batch's confidences divided by the size of that batch, whatever was recorded
\* before.
C12_PerBatchAverage ==
    [][ \A id \in ApiIds, dets \in Batches :
          (ApiEndFrame(id, dets) /\ dets # << >>) =>
            /\ metrics'.current_detection.avg_confidence[2] > 0
            /\ metrics'.current_detection.avg_confidence[1] * Len(dets) =
                   SumSeq([i \in 1..Len(dets) |-> dets[i].confidence])
                       * metrics'.current_detection.avg_confidence[2] ]_vars

\* a batch of mean 0.9 was recorded, then a batch of mean 0.7
C12_Witness ==
    /\ Len(observed.detection_log) >= 2
    /\ observed.detection_log[1].avg_confidence = <<9, 1>>
    /\ observed.detection_log[2].avg_confidence = <<21, 3>>
    /\ observed.detection_log[2].total_detections = 4

\* sockets of the running loop's copy whose send has not completed
Unsent(s) == pending[s] \cup {sending[s].ws}

\* sends of a fan-out loop to socket w, and those of them that returned
Sends(p, w) == Cardinality({i \in 1..Len(p.log) : p.log[i][1] = w})

Delivered(p, w) == Cardinality({i \in 1..Len(p.log) : p.log[i] = <<w, "ok">>})

\* C13: a fan-out loop sends to every socket of the copy it started with exactly
\* once and to no other socket, whether or not the sends to the other sockets
\* failed; so a socket of the copy whose send returns receives the payload
\* exactly once.
C13_FanOutIsolation ==
    \A s \in Streams :
      LET p == observed.publish[s]
      IN  /\ \A w \in Sockets \ p.copy : Sends(p, w) = 0
          /\ \A w \in p.copy :
               /\ Sends(p, w) = IF pc[s] = "send" /\ w \in Unsent(s) THEN 0 ELSE 1
               /\ Delivered(p, w) <= Sends(p, w)
          /\ pc[s] = "send" => Unsent(s) \subseteq p.copy

\* a finished fan-out loop whose first send failed and whose second send returned
C13_Witness ==
    \E s \in Streams, w, u \in Sockets :
      /\ pc[s] = "idle"
      /\ w # u
      /\ observed.publish[s].log = << <<w, "failed">>, <<u, "ok">> >>

\* C14 as claimed: no send is started to a socket that has failed or
\* disconnected.
C14_NoSendAfterRemoval ==
    [][ \A s \in Streams :
          (pc'[s] = "send" /\ sending'[s] # sending[s]) =>
              sending'[s].ws \notin observed.removed ]_vars

\* C14 amended: a socket that failed or disconnected is absent from the registry
\* from then on, and no fan-out loop that starts afterwards sends to it (a loop
\* already running, whose copy holds it, still does); a step removes from the
\* registry only the socket that failed or disconnected in it, and a loop that
\* starts takes every registered socket.
C14_RemovedStaysOut ==
    [][ /\ observed'.removed \cap websockets' = {}
        /\ observed.removed \subseteq observed'.removed
        /\ \A w \in websockets \ websockets' :
             /\ websockets \ websockets' = {w}
             /\ w \in observed'.removed
             /\ \/ ws_state[w] = "open" /\ ws_state'[w] = "closed"
                \/ \E s \in Streams :
                     /\ pc[s] = "send"
                     /\ observed'.publish[s].log =
                            Append(observed.publish[s].log, <<w, "failed">>)
        /\ \A s \in Streams :
             (pc[s] # "send" /\ pc'[s] = "send") =>
                /\ observed'.publish[s].copy = websockets
                /\ observed'.publish[s].gone = observed.removed
                /\ websockets \cap observed.removed = {}
        /\ \A s \in Streams :
             \A w \in observed'.publish[s].gone :
                /\ Sends(observed'.publish[s], w) = 0
                /\ pc'[s] = "send" => w \notin Unsent(s)'
      ]_vars

\* a socket's send failed while its viewer stayed connected; a fan-out loop that
\* started afterwards delivered to the other socket, which is still registered
C14_Witness ==
    \E s \in Streams, w, u \in Sockets :
      /\ w \in observed.publish[s].gone
      /\ ws_state[w] = "open"
      /\ u \in websockets
      /\ Delivered(observed.publish[s], u) = 1

\* C15: with the streams' fan-out loops interleaved with each other and with
\* viewers connecting and disconnecting, a socket that is registered from the
\* start of a loop to its end is sent that loop's payload exactly once and the
\* send returns; a loop always runs to its end and recv returns the frame.
C15_ConcurrentFanOut ==
    \A s \in Streams :
      LET p == observed.publish[s]
      IN  /\ p.stayed \subseteq p.copy
          /\ \A w \in p.stayed :
               (pc[s] # "send" \/ w \notin Unsent(s)) =>
                  /\ Sends(p, w) = 1
                  /\ Delivered(p, w) = 1
          /\ (pc[s] = "idle" /\ p.copy # {}) => result[s] = "frame"

\* two loops ran over both sockets; one viewer disconnected meanwhile and the
\* other stayed
C15_Witness ==
    \E s, t \in Streams, w, u \in Sockets :
      /\ s # t /\ w # u
      /\ pc[s] = "idle"
      /\ observed.publish[s].copy = {w, u}
      /\ observed.publish[t].copy = {w, u}
      /\ observed.publish[s].stayed = {u}
      /\ ws_state[w] = "closed"
      /\ Delivered(observed.publish[s], u) = 1
      /\ Delivered(observed.publish[t], u) = 1

\* C16: discarding a socket that is not in the registry and adding one that is
\* already in it both leave the registry as it was (one entry per socket);
\* every call returns, a discard leaves the socket out, an add leaves it in, and
\* neither touches another socket's entry.
C16_RegistryIdempotent ==
    [][ \A w \in Sockets :
          /\ RegistryDiscard(w) =>
               /\ w \notin websockets'
               /\ websockets' \ {w} = websockets \ {w}
               /\ w \notin websockets => websockets' = websockets
               /\ Len(observed'.registry_log) = Len(observed.registry_log) + 1
          /\ RegistryAdd(w) =>
               /\ w \in websockets'
               /\ websockets' \ {w} = websockets \ {w}
               /\ w \in websockets =>
                    /\ websockets' = websockets
                    /\ Cardinality(websockets') = Cardinality(websockets)
               /\ Len(observed'.registry_log) = Len(observed.registry_log) + 1
      ]_vars

\* an add of a socket that was registered and a discard of a socket that was
\* not were made, and the registry is not empty
C16_Witness ==
    /\ \E i, j \in 1..Len(observed.registry_log) :
         /\ observed.registry_log[i].op = "add"
         /\ observed.registry_log[i].present
         /\ observed.registry_log[j].op = "discard"
         /\ ~observed.registry_log[j].present
         /\ i < j
    /\ websockets # {}

\* C17 as claimed: a stream whose recv is under way can always take its next
\* step, so the frame it has begun is closed, whatever the viewers do.
C17_OpenFrameProceeds ==
    \A s \in Streams : pc[s] # "idle" => ENABLED RecvStep(s)

\* the reported rate as the pair <<numerator, denominator>>
connection_success_rate == metrics.current_network.connection_success_rate

\* C18 as claimed: once an attempt has been recorded, connection_success_rate
\* is successful_connections / connection_attempts * 100.
C18_RateIsRatio ==
    metrics.connection_attempts >= 1 =>
        connection_success_rate[1] * metrics.connection_attempts =
            metrics.successful_connections * 100 * connection_success_rate[2]

\* C19 as claimed: connection_success_rate lies in [0, 100] after any sequence
\* of record_connection_attempt and record_connection_success calls.
C19_RateBounded ==
    /\ connection_success_rate[2] > 0
    /\ connection_success_rate[1] >= 0
    /\ connection_success_rate[1] <= 100 * connection_success_rate[2]

\* C20 as claimed: once an offer's peer connection is connected, the attempt
\* recorded for that offer is no longer tracked in connection_start_times.
C20_SuccessCorrelatesAttempt ==
    \A p \in Peers :
        conn[p].state = "connected" =>
            conn[p].attempt \notin DOMAIN metrics.connection_start_times

\* C21: record_connection_success with no identifier, or with one that is not
\* tracked, adds 1 to successful_connections and leaves webrtc_connection_time
\* and connection_start_times as they were; the call returns.
C21_UntrackedSuccess ==
    [][ \A id \in ApiConnectionIds :
          (ApiConnectionSuccess(id)
              /\ (id = 0 \/ id \notin DOMAIN metrics.connection_start_times)) =>
            /\ metrics'.successful_connections = metrics.successful_connections + 1
            /\ metrics'.current_latency.webrtc_connection_time =
                   metrics.current_latency.webrtc_connection_time
            /\ metrics'.connection_start_times = metrics.connection_start_times
            /\ observed'.api_calls = observed.api_calls + 1 ]_vars

\* a success with an untracked identifier was recorded after a tracked one had
\* recorded a positive connection time, while another attempt is still tracked
C21_Witness ==
    /\ ApiCallIs("record_connection_success")
    /\ ~observed.api_call.hit
    /\ metrics.current_latency.webrtc_connection_time > 0
    /\ DOMAIN metrics.connection_start_times # {}
    /\ metrics.successful_connections = 2

\* C22 as claimed: while no offer handler is running, concurrent_users is the
\* size of pcs.
C22_GaugeIsActiveCount ==
    (\A p \in Peers : conn[p].handler # "running") =>
        metrics.current_scalability.concurrent_users = Cardinality(pcs)

\* a response that carries a snapshot of the current metrics
IsSnapshot(r) == r.status = 200 /\ "detection_quality" \in DOMAIN r.body

\* the last element of a log, or a default while the log is empty
LastOr(log, default) == IF log = << >> THEN default ELSE log[Len(log)]

\* C23: the detection_quality and computational structs of a snapshot served
\* while streams are running are those left by the latest completed
\* end_frame_processing (the initial ones before the first): no snapshot shows
\* a frame counted without its detections, or the reverse.
C23_SnapshotNotTorn ==
    IsSnapshot(response) =>
        /\ response.body.detection_quality =
               LastOr(observed.detection_log, MetricsInit.current_detection)
        /\ response.body.computational =
               LastOr(observed.computational_log, MetricsInit.current_computational)
        /\ response.body.detection_quality.total_frames_processed = observed.end_calls
        /\ response.body.detection_quality.total_detections = observed.det_sum

\* a snapshot was served while a stream was inside its fan-out loop and after
\* a frame with detections had been closed
C23_Witness ==
    /\ IsSnapshot(response)
    /\ \E s \in Streams : pc[s] = "send"
    /\ response.body.detection_quality.total_detections > 0

\* C24 as claimed: while a frame has not been through end_frame_processing,
\* nothing of its batch has been sent or is being sent to a subscriber.
C24_AggregateBeforePublish ==
    \A s \in OpenStreams :
        /\ sending[s] = NoSend
        /\ observed.publish[s].log = << >>

IsStatistics(r) == r.status = 200 /\ "detection" \in DOMAIN r.body

IsExport(r) == r.status = 200 /\ "raw_history" \in DOMAIN r.body

\* C25: a step that serves get_current_metrics, get_statistics or
\* export_metrics, successfully or not, leaves the collector (counters, current
\* structs, histories, in-flight maps) and the rest of the session as it was.
C25_ReadsChangeNothing ==
    [][ (MetricsApi \/ MetricsStatistics \/ \E io_ok \in BOOLEAN : MetricsExport(io_ok))
          => /\ metrics' = metrics
             /\ observed' = observed
             /\ websockets' = websockets
             /\ pcs' = pcs ]_vars

\* an export was served from a collector with stored snapshots, an open frame
\* and a tracked connection attempt
C25_Witness ==
    /\ IsExport(response)
    /\ metrics.latency_history # << >>
    /\ DOMAIN metrics.frame_start_times # {}
    /\ DOMAIN metrics.connection_start_times # {}

\* C26: an export whose file cannot be written is answered with status 500 and
\* an error document, and leaves the collector as it was.
C26_ExportFailure ==
    [][ MetricsExport(FALSE) =>
          /\ response'.status = 500
          /\ DOMAIN response'.body = {"error"}
          /\ metrics' = metrics ]_vars

\* an export failed on a collector that holds frames, detections and snapshots
C26_Witness ==
    /\ response.status = 500
    /\ metrics.total_frames >= 2
    /\ metrics.total_detections > 0
    /\ metrics.network_history # << >>

\* C27: an exported document has exactly metadata, current_metrics, statistics
\* and raw_history; each raw_history array is the last window_size snapshots
\* appended to that history, oldest first; the metadata totals are the number of
\* frames closed and of detections recorded; before any event the totals are 0
\* and the arrays empty.
C27_ExportDocument ==
    IsExport(response) =>
        /\ DOMAIN response.body =
               {"metadata", "current_metrics", "statistics", "raw_history"}
        /\ response.body.raw_history.latency =
               LastN(observed.latency_log, WindowSize)
        /\ response.body.raw_history.computational =
               LastN(observed.computational_log, WindowSize)
        /\ response.body.raw_history.network =
               LastN(observed.network_log, WindowSize)
        /\ response.body.raw_history.detection =
               LastN(observed.detection_log, WindowSize)
        /\ response.body.metadata.total_frames = observed.end_calls
        /\ response.body.metadata.total_detections = observed.det_sum
        /\ observed.api_calls = 0 =>
               /\ response.body.metadata.total_frames = 0
               /\ \A k \in DOMAIN response.body.raw_history :
                      response.body.raw_history[k] = << >>

\* an export was served after more frames than the window holds, with different
\* snapshots in the window
C27_Witness ==
    /\ IsExport(response)
    /\ Len(observed.detection_log) > WindowSize
    /\ response.body.raw_history.detection[1] # response.body.raw_history.detection[2]
    /\ response.body.raw_history.network # << >>

\* C28: statistics served while no snapshot has been stored have no latency
\* and no performance entry, only the detection entry with a rate of 0.
C28_EmptyWindowStatistics ==
    (IsStatistics(response)
        /\ metrics.latency_history = << >>
        /\ metrics.computational_history = << >>) =>
        /\ DOMAIN response.body = {"detection"}
        /\ response.body.detection.detection_rate[1] = 0
        /\ response.body.detection.most_detected_classes = EmptyDict

\* statistics were served before any frame was closed, after other events
C28_Witness ==
    /\ IsStatistics(response)
    /\ observed.end_calls = 0
    /\ metrics.connection_attempts > 0
    /\ DOMAIN metrics.frame_start_times # {}

\* h2 is h, or h with one snapshot appended (and the oldest dropped if full)
Kept(h, h2) ==
    \/ h2 = h
    \/ /\ Len(h2) = Len(h) + 1
       /\ SubSeq(h2, 1, Len(h)) = h
    \/ /\ Len(h2) = Len(h)
       /\ Len(h) > 0
       /\ SubSeq(h2, 1, Len(h) - 1) = Tail(h)

\* C29: no step changes a snapshot that is stored in a history: each history
\* after the step is the one before it, possibly with one snapshot appended and
\* the oldest one dropped.
C29_SnapshotsImmutable ==
    [][ /\ Kept(metrics.latency_history, metrics'.latency_history)
        /\ Kept(metrics.computational_history, metrics'.computational_history)
        /\ Kept(metrics.network_history, metrics'.network_history)
        /\ Kept(metrics.detection_history, metrics'.detection_history) ]_vars

\* a stored detection snapshot has fewer classes and lower counts than the
\* current struct, and a connection was recorded after it was stored
C29_Witness ==
    /\ Len(metrics.detection_history) = 2
    /\ DOMAIN metrics.detection_history[1].detection_categories = {"person"}
    /\ DOMAIN metrics.current_detection.detection_categories = {"person", "car"}
    /\ metrics.detection_history[1].total_detections
           < metrics.current_detection.total_detections
    /\ ApiCallIs("record_connection_attempt")

\* 1 / mean of the frame processing durations of the snapshots h, as a ratio;
\* 0 when a sample is non-positive or the mean is 0 (an empty h has no mean)
FpsOf(h) ==
    LET times == [i \in 1..Len(h) |-> h[i].frame_processing_time]
    IN  IF Len(h) > 0 /\ SumSeq(times) > 0 /\ \A i \in 1..Len(h) : times[i] > 0
        THEN <<Len(h), SumSeq(times)>>
        ELSE <<0, 1>>

\* C30 as claimed: after a frame is closed, inference_fps is 1 / mean of the
\* frame processing durations of the last (up to) 10 latency snapshots, and 0
\* when that mean is 0 or one of those samples is non-positive; the last
\* snapshots are taken either with the snapshot of the frame just closed or
\* without it
C30_FpsFromRecentWindow ==
    [][ApiCallIs("end_frame_processing")' =>
          LET fps == metrics'.current_computational.inference_fps
              with == FpsOf(LastN(metrics'.latency_history, RecentCount))
              without == FpsOf(LastN(metrics.latency_history, RecentCount))
          IN  \/ fps[1] * with[2] = with[1] * fps[2]
              \/ fps[1] * without[2] = without[1] * fps[2]]_vars

\* C31 as claimed: when a stream's frame closes after its fan-out loop, the
\* latency snapshot appended for it carries the inference_time measured for
\* that frame, whatever other streams did at the awaits in between; stated for
\* a frame that is still open in frame_start_times and whose id no other open
\* frame has
C31_SnapshotOfOwnFrame ==
    [][\A s \in Streams :
          (/\ pc[s] = "send" /\ pc'[s] = "idle"
           /\ frame_id[s] \in DOMAIN metrics.frame_start_times
           /\ \A u \in OpenStreams \ {s} : frame_id[u] # frame_id[s]) =>
              LastOr(metrics'.latency_history, metrics'.current_latency).inference_time
                  = observed.measured[s]]_vars

\* C32 as claimed: a peer connection whose state is closed or failed is not in
\* pcs.
C32_TerminalRemoved ==
    \A p \in Peers : conn[p].state \in {"closed", "failed"} => p \notin pcs

\* C33 as claimed: when a step of recv fails, at track.recv() or later, the
\* handler closes the frame with an empty batch (one more frame, no more
\* detections) and recv returns instead of raising.
C33_ErrorHandlerCompletes ==
    [][\A s \in Streams :
          (pc[s] = "track_recv" /\ pc'[s] = "idle" /\ result'[s] # "frame") =>
              /\ metrics'.total_frames = metrics.total_frames + 1
              /\ metrics'.total_detections = metrics.total_detections
              /\ result'[s] = "frame_after_error"]_vars

\* C34: the per-class counters sum to total_detections, and the detection
\* struct's total_detections and total_frames_processed equal the collector's
\* total_detections and total_frames.
C34_CountersAgree ==
    LET cats == metrics.current_detection.detection_categories
        keys == [i \in 1..2 |-> IF i = 1 THEN "person" ELSE "car"]
    IN  /\ DOMAIN cats \subseteq Labels
        /\ SumSeq([i \in 1..2 |-> CategoryCount(metrics, keys[i])])
               = metrics.total_detections
        /\ metrics.current_detection.total_detections = metrics.total_detections
        /\ metrics.current_detection.total_frames_processed = metrics.total_frames

\* batches with both labels and a frame with an empty batch have been recorded
C34_Witness ==
    /\ CategoryCount(metrics, "person") >= 2
    /\ CategoryCount(metrics, "car") >= 2
    /\ metrics.total_frames > metrics.current_detection.frames_with_detections
    /\ metrics.total_frames >= 3

\* C35: the latency, computational and detection histories have the same
\* length, min(total_frames, window_size); only a closed frame changes them.
C35_HistoriesInStep ==
    LET n == IF metrics.total_frames < metrics.window_size
             THEN metrics.total_frames ELSE metrics.window_size
    IN  /\ Len(metrics.latency_history) = n
        /\ Len(metrics.computational_history) = n
        /\ Len(metrics.detection_history) = n
        /\ observed.end_calls = metrics.total_frames

\* more frames were closed than the window holds, and a network snapshot was
\* recorded as well
C35_Witness ==
    /\ metrics.total_frames > metrics.window_size
    /\ Len(metrics.detection_history) = metrics.window_size
    /\ Len(metrics.network_history) = 1

\* C36: a step in which a send_str to a subscriber returned adds the payload
\* size to total_bytes_sent once and appends one network snapshot; every other
\* step of the server (a send that raised, a frame with an empty batch or
\* without subscribers, a viewer coming or going, a dashboard poll) leaves
\* total_bytes_sent and the network history as they were.
C36_BytesPerDelivery ==
    [][LET delivering == {s \in Streams : pc[s] = "send" /\ sending[s].ok /\ RecvSend(s)}
           bytes == metrics.current_network.total_bytes_sent
       IN  IF delivering # {}
           THEN \E s \in delivering :
                  /\ metrics'.current_network.total_bytes_sent = bytes + data_size[s]
                  /\ metrics'.network_history =
                         deque_append(metrics.network_history,
                                      metrics'.current_network, metrics.window_size)
           ELSE /\ metrics'.current_network.total_bytes_sent = bytes
                /\ metrics'.network_history = metrics.network_history]_vars

\* a finished fan-out with one delivery and one failed send, counted once
C36_Witness ==
    \E s \in Streams :
        LET p == observed.publish[s]
        IN  /\ pc[s] = "idle"
            /\ \E w \in Sockets : Delivered(p, w) = 1
            /\ \E w \in Sockets : Sends(p, w) = 1 /\ Delivered(p, w) = 0
            /\ metrics.current_network.total_bytes_sent = PayloadSize(<<Person>>)
            /\ Len(metrics.network_history) = 1

\* C37 as claimed: when a frame closes and a 'data_transmitted' privacy event
\* is recorded for it, the frame's payload was delivered to at least one
\* subscriber.
C37_EventOnlyIfDelivered ==
    [][\A s \in Streams :
          (/\ pc[s] = "send" /\ pc'[s] = "idle"
           /\ Len(metrics'.current_privacy.privacy_events)
                  > Len(metrics.current_privacy.privacy_events)) =>
              \E w \in Sockets : Delivered(observed'.publish[s], w) >= 1]_vars

\* C38 as claimed: while the message of a client whose own connection is open
\* is being forwarded, no step (a send that fails, a client connecting or
\* disconnecting, the loop going on) ends the sender's handler or takes the
\* sender out of connected_clients.
C38_SenderSurvivesForwarding ==
    [][\A c \in Clients :
          (client[c].handler = "forwarding" /\ client[c].link = "open") =>
              /\ client'[c].handler \in {"forwarding", "listening"}
              /\ c \in connected_clients']_vars

====
